---- MODULE Spec2Model ----
(***************************************************************************)
(* State-machine model of the three utilities of puppini-bridge:           *)
(*   load_data_duckdb.py  (Schema Loader)                                  *)
(*   infer_schemas.py     (Bridge Synthesizer)                             *)
(*   erd.py               (Diagram Generator)                              *)
(* The database engine is modelled by what the utilities observe of it:    *)
(* the database file's existence, the catalog (tables with their columns   *)
(* and row counts), declared key constraints, and the errors it raises.    *)
(***************************************************************************)
EXTENDS Integers, Sequences, FiniteSets, TLC

\* ------------------------------------------------------------------ bounds
MaxEntries == 2     \* entries of a csv_files mapping in a direct call
MaxRuns == 2        \* consecutive calls of load_csv_to_duckdb
MaxTables == 3      \* length of the Bridge Synthesizer's input list
MaxRows == 2        \* rows of a table in the bridge scenarios
MaxFks == 2         \* declared foreign keys in the diagram scenarios
MaxListing == 3     \* rows of a column listing handed to the renderer
MaxFkRows == 2      \* rows of a foreign-key result handed to the renderer

\* ------------------------------------------------------- generic helpers
SeqsUpTo(S, n) == UNION {[1..k -> S] : k \in 0..n}

Range(s) == {s[i] : i \in 1..Len(s)}

EmptyCatalog == [t \in {} |-> 0]

\* ------------------------------------------------------------- variables
VARIABLES
    util,               \* which utility this process runs
    pc,                 \* position of the process in the utility
    dbExists,           \* Path(database_path).exists()
    catalog,            \* tables of the database: name -> [cols, rows]
    conOpen,            \* connections opened by the process and not closed
    stmts,              \* statements executed on the connection in this call
    err,                \* the exception that ended the run ("" when none)
    existed0,           \* dbExists when the current call started
    cat0,               \* catalog when the current call started
    idx,                \* position of the running loop
    \* ---- Schema Loader
    caller,             \* "main" or "direct"
    csv_files,          \* the mapping, as its items() in insertion order
    fileExists,         \* the paths for which csv_path.exists()
    force,
    hist,               \* one record per finished earlier call
    \* ---- Bridge Synthesizer
    tables,             \* the input list of table names
    schemas,            \* ordered dict: sequence of <<table, columns dict>>
    union_queries,      \* the selections, one record per select
    create_table_query, \* the generated statement text ("" before)
    \* ---- Diagram Generator
    pkeys,              \* tables that declare a primary key
    fkeys,              \* declared foreign keys
    table_columns,      \* result of the column listing query
    foreign_keys,       \* result of the relationship query
    mermaid_diagram,    \* the diagram, as its lines
    output_file         \* lines written to er-diagram.mermaid (<<>> before)

vars == <<util, pc, dbExists, catalog, conOpen, stmts, err, existed0, cat0, idx,
          caller, csv_files, fileExists, force, hist,
          tables, schemas, union_queries, create_table_query,
          pkeys, fkeys, table_columns, foreign_keys, mermaid_diagram, output_file>>

sharedVars == <<dbExists, catalog, conOpen, stmts, err, existed0, cat0, idx>>
loaderVars == <<caller, csv_files, fileExists, force, hist>>
bridgeVars == <<tables, schemas, union_queries, create_table_query>>
erdVars == <<pkeys, fkeys, table_columns, foreign_keys, mermaid_diagram, output_file>>

LoaderIdle ==
    /\ caller = "none" /\ csv_files = <<>> /\ fileExists = {}
    /\ force = FALSE /\ hist = <<>>

BridgeIdle ==
    /\ tables = <<>> /\ schemas = <<>> /\ union_queries = <<>>
    /\ create_table_query = ""

ErdIdle ==
    /\ pkeys = {} /\ fkeys = {} /\ table_columns = <<>> /\ foreign_keys = <<>>
    /\ mermaid_diagram = <<>> /\ output_file = <<>>

\* -------------------------------------------------------------- fixtures
\* Columns of each table in ordinal order, as <<name, type>>.
TableCols(t) ==
    CASE t = "fact_sales" ->
           << <<"sale_id", "BIGINT">>, <<"product_id", "BIGINT">>,
              <<"store_id", "BIGINT">>, <<"amount", "DOUBLE">> >>
      [] t = "fact_returns" ->
           << <<"return_id", "BIGINT">>, <<"sale_id", "BIGINT">>,
              <<"amount", "DOUBLE">> >>
      [] t = "dim_product" ->
           << <<"product_id", "BIGINT">>, <<"name", "VARCHAR">> >>
      [] t = "dim_customer" ->
           << <<"customer_id", "BIGINT">>, <<"name", "VARCHAR">> >>
      [] t = "dim_store" ->
           << <<"store_id", "BIGINT">>, <<"city", "VARCHAR">> >>
      [] t = "dim_time" ->
           << <<"date_id", "DATE">>, <<"year", "BIGINT">> >>
      [] t = "puppini_bridge" ->
           << <<"_KEY_fact_sales", "VARCHAR">>, <<"Stage", "VARCHAR">> >>
      [] OTHER -> << <<"id", "INTEGER">> >>

\* DATA_DIR / "<table>.csv"
CsvPath(t) == "data/" \o t \o ".csv"

\* What read_csv_auto infers from a file: the table it yields.
ReadCsvAuto(path) ==
    CASE path = CsvPath("fact_sales") -> [cols |-> TableCols("fact_sales"), rows |-> 2]
      [] path = CsvPath("fact_returns") -> [cols |-> TableCols("fact_returns"), rows |-> 1]
      [] path = CsvPath("dim_product") -> [cols |-> TableCols("dim_product"), rows |-> 2]
      [] path = CsvPath("dim_customer") -> [cols |-> TableCols("dim_customer"), rows |-> 1]
      [] path = CsvPath("dim_store") -> [cols |-> TableCols("dim_store"), rows |-> 1]
      [] path = CsvPath("dim_time") -> [cols |-> TableCols("dim_time"), rows |-> 0]
      [] OTHER -> [cols |-> TableCols(""), rows |-> 0]

\* ============================================================ Schema Loader
\* csv_files of main(), in the dict's insertion order.
MainCsvFiles ==
    << <<"fact_sales", CsvPath("fact_sales")>>,
       <<"fact_returns", CsvPath("fact_returns")>>,
       <<"dim_product", CsvPath("dim_product")>>,
       <<"dim_customer", CsvPath("dim_customer")>>,
       <<"dim_store", CsvPath("dim_store")>>,
       <<"dim_time", CsvPath("dim_time")>> >>

\* Names and paths of the mappings a direct caller passes.
DirectTables == {"fact_sales", "dim_product", "dim_store"}
DirectPaths == {CsvPath("fact_sales"), CsvPath("dim_product")}

\* A dict has each key once.
Mappings ==
    {m \in SeqsUpTo(DirectTables \X DirectPaths, MaxEntries) :
        \A i, j \in 1..Len(m) : i # j => m[i][1] # m[j][1]}

\* Catalogs of a database file that exists before the first call.
ExistingCatalogs ==
    { EmptyCatalog,
      [t \in {"fact_sales"} |-> ReadCsvAuto(CsvPath(t))],
      [t \in {"fact_sales", "dim_product"} |-> ReadCsvAuto(CsvPath(t))],
      [t \in {"dim_store"} |-> [cols |-> TableCols(""), rows |-> 1]] }

InitLoader ==
    /\ util = "loader" /\ pc = "call"
    /\ \/ /\ dbExists = FALSE /\ catalog = EmptyCatalog
       \/ /\ dbExists = TRUE /\ catalog \in ExistingCatalogs
    /\ conOpen = 0 /\ stmts = <<>> /\ err = ""
    /\ existed0 = dbExists /\ cat0 = catalog /\ idx = 0
    /\ \/ /\ caller = "main" /\ csv_files = MainCsvFiles /\ force = FALSE
          /\ fileExists \in SUBSET {e[2] : e \in Range(MainCsvFiles)}
       \/ /\ caller = "direct" /\ csv_files \in Mappings /\ force \in BOOLEAN
          /\ fileExists \in SUBSET DirectPaths
    /\ hist = <<>>
    /\ BridgeIdle /\ ErdIdle

\* Mutant of KeepExisting: the sense of the force flag inverted.
KeepExistingInverted(exists, f) == exists /\ f

\* if Path(database_path).exists() and not force
KeepExisting(exists, f) == exists /\ ~f

\* lines 24-28: the database exists and force is off: connect and return.
LoadExisting ==
    /\ util = "loader" /\ pc = "call"
    /\ KeepExisting(dbExists, force)
    /\ conOpen' = conOpen + 1
    /\ pc' = "returned"
    /\ UNCHANGED <<util, dbExists, catalog, stmts, err, existed0, cat0, idx>>
    /\ UNCHANGED <<loaderVars, bridgeVars, erdVars>>

\* line 30: duckdb.connect creates the file when there is none.
LoadConnect ==
    /\ util = "loader" /\ pc = "call"
    /\ ~KeepExisting(dbExists, force)
    /\ dbExists' = TRUE
    /\ conOpen' = conOpen + 1
    /\ idx' = 1
    /\ pc' = "loop"
    /\ UNCHANGED <<util, catalog, stmts, err, existed0, cat0>>
    /\ UNCHANGED <<loaderVars, bridgeVars, erdVars>>

\* Mutant of LoadSkip: a missing file raises instead of being skipped.
LoadSkipRaises ==
    /\ util = "loader" /\ pc = "loop" /\ idx <= Len(csv_files)
    /\ csv_files[idx][2] \notin fileExists
    /\ pc' = "raised" /\ err' = "FileNotFoundError"
    /\ UNCHANGED <<util, dbExists, catalog, conOpen, stmts, existed0, cat0, idx>>
    /\ UNCHANGED <<loaderVars, bridgeVars, erdVars>>

\* lines 32-36: the file is missing: log and continue with the next entry.
LoadSkip ==
    /\ util = "loader" /\ pc = "loop" /\ idx <= Len(csv_files)
    /\ csv_files[idx][2] \notin fileExists
    /\ idx' = idx + 1
    /\ UNCHANGED <<util, pc, dbExists, catalog, conOpen, stmts, err, existed0, cat0>>
    /\ UNCHANGED <<loaderVars, bridgeVars, erdVars>>

\* The statement of lines 41-43.
CreateTableStmt(table_name, csv_path) ==
    [op |-> "CREATE TABLE", table |-> table_name, from |-> csv_path]

\* lines 38-45: CREATE TABLE <name> AS SELECT * FROM read_csv_auto(<path>).
\* The engine refuses to create a table whose name is taken (the statement is
\* CREATE TABLE, not CREATE OR REPLACE TABLE); the error leaves the function.
LoadCreate ==
    /\ util = "loader" /\ pc = "loop" /\ idx <= Len(csv_files)
    /\ csv_files[idx][2] \in fileExists
    /\ LET table_name == csv_files[idx][1]
           csv_path == csv_files[idx][2]
       IN /\ stmts' = Append(stmts, CreateTableStmt(table_name, csv_path))
          /\ IF table_name \in DOMAIN catalog
             THEN /\ pc' = "raised" /\ err' = "CatalogException"
                  /\ UNCHANGED <<catalog, idx>>
             ELSE /\ catalog' = [t \in DOMAIN catalog \cup {table_name} |->
                                   IF t = table_name THEN ReadCsvAuto(csv_path)
                                   ELSE catalog[t]]
                  /\ idx' = idx + 1
                  /\ UNCHANGED <<pc, err>>
    /\ UNCHANGED <<util, dbExists, conOpen, existed0, cat0>>
    /\ UNCHANGED <<loaderVars, bridgeVars, erdVars>>

\* line 47: return con.
LoadReturn ==
    /\ util = "loader" /\ pc = "loop" /\ idx > Len(csv_files)
    /\ pc' = "returned"
    /\ UNCHANGED <<util, dbExists, catalog, conOpen, stmts, err, existed0, cat0, idx>>
    /\ UNCHANGED <<loaderVars, bridgeVars, erdVars>>

\* main, lines 72-74: con.sql("SELECT * FROM fact_sales").df(); main ends
\* there, the connection is not closed on either path.
MainVerify ==
    /\ util = "loader" /\ caller = "main" /\ pc = "returned"
    /\ stmts' = Append(stmts, [op |-> "SELECT", table |-> "fact_sales", from |-> ""])
    /\ IF "fact_sales" \in DOMAIN catalog
       THEN pc' = "done" /\ UNCHANGED err
       ELSE pc' = "raised" /\ err' = "CatalogException"
    /\ UNCHANGED <<util, dbExists, catalog, conOpen, existed0, cat0, idx>>
    /\ UNCHANGED <<loaderVars, bridgeVars, erdVars>>

\* A direct caller calls load_csv_to_duckdb again on the same database file
\* with the same mapping.
LoadAgain ==
    /\ util = "loader" /\ caller = "direct" /\ pc \in {"returned", "raised"}
    /\ Len(hist) + 1 < MaxRuns
    /\ hist' = Append(hist, [force |-> force, outcome |-> pc, catalog |-> catalog,
                             existed0 |-> existed0, cat0 |-> cat0])
    /\ \E f \in BOOLEAN : force' = f
    /\ pc' = "call" /\ err' = "" /\ stmts' = <<>> /\ idx' = 0
    /\ existed0' = dbExists /\ cat0' = catalog
    /\ UNCHANGED <<util, dbExists, catalog, conOpen, caller, csv_files, fileExists>>
    /\ UNCHANGED <<bridgeVars, erdVars>>

NextLoader ==
    \/ LoadExisting
    \/ LoadConnect
    \/ LoadSkip
    \/ LoadCreate
    \/ LoadReturn
    \/ MainVerify
    \/ LoadAgain

SpecLoader == InitLoader /\ [][NextLoader]_vars

\* ----------------------------------------------------- Schema Loader claims
LoadEnded == util = "loader" /\ pc \in {"returned", "raised"}

AllFilesExist == \A i \in 1..Len(csv_files) : csv_files[i][2] \in fileExists

SchemaOf(cat) == [t \in DOMAIN cat |-> cat[t].cols]

\* C1 (as claimed): when every file of the mapping exists, two calls in a row
\* with force=True on the same database file both return without an error,
\* and the tables with their column names and types after the second call
\* are those after the first.  Stated for the case most favourable to the
\* claim: the first call finds no table in the database.
C1_ForceTwiceIdempotent ==
    (/\ LoadEnded /\ caller = "direct"
     /\ Len(hist) = 1 /\ hist[1].force /\ force /\ AllFilesExist
     /\ hist[1].cat0 = EmptyCatalog)
    => /\ hist[1].outcome = "returned"
       /\ pc = "returned"
       /\ SchemaOf(catalog) = SchemaOf(hist[1].catalog)

CreatesIn(ss) == {i \in 1..Len(ss) : ss[i].op = "CREATE TABLE"}

\* C2: when the database file exists at the call and force is false, the
\* call issues no CREATE TABLE statement, never enters the loading loop,
\* leaves the catalog as it found it and returns a connection, whatever the
\* mapping holds.
C2_ExistingKeptUnchanged ==
    (util = "loader" /\ existed0 /\ ~force)
    => /\ CreatesIn(stmts) = {}
       /\ catalog = cat0
       /\ pc # "loop"
       /\ (caller = "direct" => pc \in {"call", "returned"})
       /\ (pc # "call" => conOpen = Len(hist) + 1)

\* C2's case: the early return happened with a mapping that holds a missing
\* file and a loadable file whose table the database lacks.
C2_Witness ==
    /\ util = "loader" /\ caller = "direct" /\ pc = "returned"
    /\ existed0 /\ ~force
    /\ \E i, j \in 1..Len(csv_files) :
         /\ csv_files[i][2] \notin fileExists
         /\ csv_files[j][2] \in fileExists
         /\ csv_files[j][1] \notin DOMAIN catalog

\* Names of the first n entries whose file exists.
Loadable(n) == {csv_files[i][1] : i \in {j \in 1..n : csv_files[j][2] \in fileExists}}

\* C3: starting from no database (or with force on an empty one), no error
\* comes from a missing file: the loop never raises, after each entry the
\* tables are exactly those of the entries so far whose file exists, and at
\* the return every such entry has its table as read from its file and no
\* entry with a missing file has one.
C3_MissingFilesSkipped ==
    (util = "loader" /\ cat0 = EmptyCatalog /\ (~existed0 \/ force))
    => /\ (pc = "loop" => DOMAIN catalog = Loadable(idx - 1))
       /\ (pc \in {"returned", "done"} =>
             /\ DOMAIN catalog = Loadable(Len(csv_files))
             /\ \A i \in 1..Len(csv_files) :
                  csv_files[i][2] \in fileExists
                  => catalog[csv_files[i][1]] = ReadCsvAuto(csv_files[i][2]))
       /\ (pc = "raised" => stmts # <<>> /\ stmts[Len(stmts)].op = "SELECT")
       /\ err # "FileNotFoundError"

\* C3's case: the call returned from no database with a missing entry placed
\* before a loaded one.
C3_Witness ==
    /\ util = "loader" /\ pc = "returned" /\ ~existed0 /\ cat0 = EmptyCatalog
    /\ Len(csv_files) >= 2
    /\ csv_files[1][2] \notin fileExists
    /\ csv_files[2][2] \in fileExists
    /\ DOMAIN catalog = {csv_files[2][1]}

\* ======================================================== Bridge Synthesizer
\* Names the input list is drawn from.
BridgeNames == {"fact_sales", "dim_product", "puppini_bridge"}

\* Catalogs of an existing database: each name absent, or present with its
\* columns and some number of rows.
BridgeCatalogs ==
    UNION {[present -> 0..MaxRows] : present \in SUBSET BridgeNames}

CatalogOf(rowsOf) == [t \in DOMAIN rowsOf |-> [cols |-> TableCols(t), rows |-> rowsOf[t]]]

InitBridge ==
    /\ util = "bridge" /\ pc = "infer_call"
    /\ \/ /\ dbExists = FALSE /\ catalog = EmptyCatalog
       \/ /\ dbExists = TRUE /\ \E r \in BridgeCatalogs : catalog = CatalogOf(r)
    /\ conOpen = 0 /\ stmts = <<>> /\ err = ""
    /\ existed0 = dbExists /\ cat0 = catalog /\ idx = 0
    /\ tables \in SeqsUpTo(BridgeNames, MaxTables)
    /\ schemas = <<>> /\ union_queries = <<>> /\ create_table_query = ""
    /\ LoaderIdle /\ ErdIdle

\* ---- an insertion-ordered dict, as the sequence of its <<key, value>> items
DictKeys(d) == [i \in 1..Len(d) |-> d[i][1]]

DictHas(d, k) == \E i \in 1..Len(d) : d[i][1] = k

\* Mutant of DictSet: a repeated key adds a second item.
DictSetAppends(d, k, v) == Append(d, <<k, v>>)

\* d[k] = v: a new key goes last, a known key keeps its place.
DictSet(d, k, v) ==
    IF DictHas(d, k)
    THEN [i \in 1..Len(d) |-> IF d[i][1] = k THEN <<k, v>> ELSE d[i]]
    ELSE Append(d, <<k, v>>)

\* PRAGMA table_info(<table>): rows (cid, name, type, ...) in ordinal order.
TableInfo(cat, table) ==
    [i \in 1..Len(cat[table].cols) |->
        <<i - 1, cat[table].cols[i][1], cat[table].cols[i][2]>>]

\* {col[1]: col[2] for col in columns} (col[1], col[2] count from 0).
RECURSIVE ColumnsDict(_)
ColumnsDict(columns) ==
    IF columns = <<>> THEN <<>>
    ELSE LET front == SubSeq(columns, 1, Len(columns) - 1)
             col == columns[Len(columns)]
         IN DictSet(ColumnsDict(front), col[2], col[3])

\* lines 33-39: the existence check, then the connection.
\* Mutant of InferCall: no existence check; connecting creates the file.
InferCallUnchecked ==
    /\ util = "bridge" /\ pc = "infer_call"
    /\ dbExists' = TRUE
    /\ conOpen' = conOpen + 1 /\ pc' = "infer_loop" /\ idx' = 1
    /\ UNCHANGED <<util, catalog, stmts, err, existed0, cat0>>
    /\ UNCHANGED <<loaderVars, bridgeVars, erdVars>>

InferCall ==
    /\ util = "bridge" /\ pc = "infer_call"
    /\ IF ~dbExists
       THEN /\ pc' = "raised" /\ err' = "FileNotFoundError"
            /\ UNCHANGED <<conOpen, idx>>
       ELSE /\ conOpen' = conOpen + 1 /\ pc' = "infer_loop" /\ idx' = 1
            /\ UNCHANGED err
    /\ UNCHANGED <<util, dbExists, catalog, stmts, existed0, cat0>>
    /\ UNCHANGED <<loaderVars, bridgeVars, erdVars>>

PragmaStmt(table) == [op |-> "PRAGMA table_info", table |-> table, from |-> ""]

\* Mutant of InferTable: a table the database lacks is passed over.
InferTableSkipsMissing ==
    /\ util = "bridge" /\ pc = "infer_loop" /\ idx <= Len(tables)
    /\ LET table == tables[idx]
       IN /\ stmts' = Append(stmts, PragmaStmt(table))
          /\ schemas' = IF table \in DOMAIN catalog
                        THEN DictSet(schemas, table, ColumnsDict(TableInfo(catalog, table)))
                        ELSE schemas
          /\ idx' = idx + 1
    /\ UNCHANGED <<util, pc, err, dbExists, catalog, conOpen, existed0, cat0>>
    /\ UNCHANGED <<tables, union_queries, create_table_query>>
    /\ UNCHANGED <<loaderVars, erdVars>>

\* lines 43-48: one pass of the loop; the engine's error for a table it does
\* not know leaves the function (there is no try around the query).
InferTable ==
    /\ util = "bridge" /\ pc = "infer_loop" /\ idx <= Len(tables)
    /\ LET table == tables[idx]
       IN /\ stmts' = Append(stmts, PragmaStmt(table))
          /\ IF table \in DOMAIN catalog
             THEN /\ schemas' = DictSet(schemas, table,
                                        ColumnsDict(TableInfo(catalog, table)))
                  /\ idx' = idx + 1
                  /\ UNCHANGED <<pc, err>>
             ELSE /\ pc' = "raised" /\ err' = "CatalogException"
                  /\ UNCHANGED <<schemas, idx>>
    /\ UNCHANGED <<util, dbExists, catalog, conOpen, existed0, cat0>>
    /\ UNCHANGED <<tables, union_queries, create_table_query>>
    /\ UNCHANGED <<loaderVars, erdVars>>

\* line 50: return con, schemas.
InferReturn ==
    /\ util = "bridge" /\ pc = "infer_loop" /\ idx > Len(tables)
    /\ pc' = "inferred"
    /\ UNCHANGED <<util, sharedVars, loaderVars, bridgeVars, erdVars>>

\* Mutant of PrimaryKey: the last column instead of the first.
PrimaryKeyLast(columns) == DictKeys(columns)[Len(columns)]

\* primary_key = list(columns.keys())[0]
PrimaryKey(columns) == DictKeys(columns)[1]

\* The f-string of line 63.
SelectQuery(primary_key, table_name) ==
    "SELECT CAST(" \o primary_key \o " AS VARCHAR) AS _KEY_" \o table_name
        \o ", '" \o table_name \o "' AS Stage FROM " \o table_name

\* sep.join(strs)
RECURSIVE Join(_, _)
Join(sep, strs) ==
    IF strs = <<>> THEN ""
    ELSE IF Len(strs) = 1 THEN strs[1]
    ELSE strs[1] \o sep \o Join(sep, Tail(strs))

\* lines 57-65: one select per item of schemas, in the dict's order; each is
\* kept with what the engine reads out of its text.
UnionQueries(sch) ==
    [i \in 1..Len(sch) |->
        [text |-> SelectQuery(PrimaryKey(sch[i][2]), sch[i][1]),
         key |-> PrimaryKey(sch[i][2]),
         alias |-> "_KEY_" \o sch[i][1],
         from |-> sch[i][1]]]

\* lines 68 and 72.
CreateTableQuery(queries) ==
    "CREATE OR REPLACE TABLE puppini_bridge AS "
        \o Join(" UNION ALL ", [i \in 1..Len(queries) |-> queries[i].text])

\* main, line 84: generate_puppini_bridge_sql(schemas).  Every table of the
\* engine has a column, so list(columns.keys())[0] finds one.
Generate ==
    /\ util = "bridge" /\ pc = "inferred"
    /\ union_queries' = UnionQueries(schemas)
    /\ create_table_query' = CreateTableQuery(UnionQueries(schemas))
    /\ pc' = "generated"
    /\ UNCHANGED <<util, dbExists, catalog, conOpen, stmts, err, existed0, cat0, idx>>
    /\ UNCHANGED <<tables, schemas>>
    /\ UNCHANGED <<loaderVars, erdVars>>

\* Rows of a UNION ALL: every row of every select.
RECURSIVE UnionAllRows(_, _)
UnionAllRows(cat, queries) ==
    IF queries = <<>> THEN 0
    ELSE cat[Head(queries).from].rows + UnionAllRows(cat, Tail(queries))

\* main, line 87: con.execute(puppini_bridge_sql).  An empty select list
\* leaves "CREATE OR REPLACE TABLE puppini_bridge AS ", which does not parse;
\* otherwise the table is replaced by the union, named after its first select.
Execute ==
    /\ util = "bridge" /\ pc = "generated"
    /\ stmts' = Append(stmts, [op |-> "CREATE OR REPLACE TABLE",
                               table |-> "puppini_bridge", from |-> create_table_query])
    /\ IF union_queries = <<>>
       THEN /\ pc' = "raised" /\ err' = "ParserException"
            /\ UNCHANGED catalog
       ELSE /\ catalog' =
                 [t \in DOMAIN catalog \cup {"puppini_bridge"} |->
                    IF t = "puppini_bridge"
                    THEN [cols |-> << <<union_queries[1].alias, "VARCHAR">>,
                                      <<"Stage", "VARCHAR">> >>,
                          rows |-> UnionAllRows(catalog, union_queries)]
                    ELSE catalog[t]]
            /\ pc' = "done"
            /\ UNCHANGED err
    /\ UNCHANGED <<util, dbExists, conOpen, existed0, cat0, idx>>
    /\ UNCHANGED <<loaderVars, bridgeVars, erdVars>>

NextBridge ==
    \/ InferCall
    \/ InferTable
    \/ InferReturn
    \/ Generate
    \/ Execute

SpecBridge == InitBridge /\ [][NextBridge]_vars

\* --------------------------------------------------- Bridge Synthesizer claims
RECURSIVE SumOverEntries(_, _)
SumOverEntries(cat, names) ==
    IF names = <<>> THEN 0
    ELSE cat[Head(names)].rows + SumOverEntries(cat, Tail(names))

RECURSIVE SumOverNames(_, _)
SumOverNames(cat, names) ==
    IF names = {} THEN 0
    ELSE LET t == CHOOSE x \in names : TRUE
         IN cat[t].rows + SumOverNames(cat, names \ {t})

\* The entries of a list without the repetitions of an earlier entry.
FirstOccurrences(names) ==
    LET keep == {i \in 1..Len(names) : \A j \in 1..(i - 1) : names[j] # names[i]}
        pos(k) == CHOOSE i \in keep : Cardinality({j \in keep : j < i}) = k - 1
    IN [k \in 1..Cardinality(keep) |-> names[pos(k)]]

BridgeBuilt == util = "bridge" /\ pc = "done"

\* C4 (as claimed): once the statement has been executed, puppini_bridge
\* holds as many rows as the tables of the input list held together, each
\* entry of the list counted.
C4_RowsSumOverEntries ==
    BridgeBuilt
    => catalog["puppini_bridge"].rows = SumOverEntries(cat0, tables)

\* C4 (amended): once the statement has been executed, puppini_bridge holds
\* as many rows as the distinct tables named in the input list held together.
C4_RowsSumOverDistinctTables ==
    BridgeBuilt
    => catalog["puppini_bridge"].rows = SumOverNames(cat0, Range(tables))

\* C4's case: a bridge built from a list that names two tables with rows,
\* one of them twice.
C4_Witness ==
    /\ BridgeBuilt
    /\ Len(tables) = 3 /\ Cardinality(Range(tables)) = 2
    /\ \A t \in Range(tables) : cat0[t].rows > 0

\* The selection the claim gives for table T of catalog cat.
ClaimedSelect(cat, T) ==
    "SELECT CAST(" \o cat[T].cols[1][1] \o " AS VARCHAR) AS _KEY_" \o T
        \o ", '" \o T \o "' AS Stage FROM " \o T

ClaimedStatement(cat, names) ==
    "CREATE OR REPLACE TABLE puppini_bridge AS "
        \o Join(" UNION ALL ", [i \in 1..Len(names) |-> ClaimedSelect(cat, names[i])])

BridgeGenerated ==
    /\ util = "bridge" /\ pc \in {"generated", "done"} /\ tables # <<>>

\* C5 (as claimed): for a non-empty list of existing tables the statement is
\* the CREATE OR REPLACE TABLE of the UNION ALL, in list order, of one
\* selection per entry of the list, each casting the table's first column.
C5_OneSelectPerEntry ==
    BridgeGenerated => create_table_query = ClaimedStatement(cat0, tables)

\* C5 (amended): for a non-empty list of existing tables the statement is the
\* CREATE OR REPLACE TABLE of the UNION ALL of one selection per distinct
\* table of the list, in the order of first occurrence, each casting the
\* table's first column in ordinal order.
C5_OneSelectPerDistinctTable ==
    BridgeGenerated
    => create_table_query = ClaimedStatement(cat0, FirstOccurrences(tables))

\* C5's case: a statement generated from a list of two different tables, the
\* later one repeated, where first and last column differ.
C5_Witness ==
    /\ BridgeGenerated
    /\ Len(tables) = 3 /\ tables[1] # tables[2] /\ tables[3] = tables[2]
    /\ \A i \in 1..3 : Len(cat0[tables[i]].cols) >= 2

\* C9: when the database file does not exist, the run ends in the not-found
\* error with no connection opened, no statement executed and no file made.
C9_MissingDatabaseRaisesFirst ==
    (util = "bridge" /\ ~existed0)
    => /\ pc \in {"infer_call", "raised"}
       /\ (pc = "raised" => err = "FileNotFoundError")
       /\ ~dbExists
       /\ conOpen = 0
       /\ stmts = <<>>
       /\ create_table_query = ""

\* C9's case: the run ended on the missing file with tables to inspect.
C9_Witness ==
    /\ util = "bridge" /\ ~existed0 /\ pc = "raised" /\ tables # <<>>

MissingNames == {i \in 1..Len(tables) : tables[i] \notin DOMAIN cat0}

\* C10: when the database exists and the list names a table it lacks, the
\* run never returns a schema map and never generates or executes the bridge
\* statement: it ends in the engine's own error with the catalog (an existing
\* puppini_bridge included) as it was, wherever the name sits in the list.
C10_MissingTablePropagates ==
    (util = "bridge" /\ existed0 /\ MissingNames # {})
    => /\ pc \in {"infer_call", "infer_loop", "raised"}
       /\ (pc = "raised" => err = "CatalogException")
       /\ catalog = cat0
       /\ union_queries = <<>>
       /\ create_table_query = ""
       /\ \A i \in 1..Len(stmts) : stmts[i].op = "PRAGMA table_info"

\* C10's case: the error came for a name that follows an existing table, in a
\* database that holds a puppini_bridge table.
C10_Witness ==
    /\ util = "bridge" /\ existed0 /\ pc = "raised"
    /\ Len(tables) >= 2 /\ 1 \notin MissingNames /\ MissingNames # {}
    /\ tables[1] # "puppini_bridge"
    /\ "puppini_bridge" \in DOMAIN catalog

\* ========================================================= Diagram Generator
\* Table names in the order ORDER BY table_name lists them.
NameOrder ==
    <<"dim_customer", "dim_product", "dim_store", "dim_time", "fact_returns",
      "fact_sales", "puppini_bridge">>

\* Tables of the diagram scenarios and the foreign keys they may declare;
\* a declared primary key is on the table's first column.
ErdTables == {"dim_product", "dim_store", "fact_sales", "fact_returns"}

FkCandidates ==
    { [from_table |-> "fact_sales", from_column |-> "product_id",
       to_table |-> "dim_product", to_column |-> "product_id"],
      [from_table |-> "fact_sales", from_column |-> "store_id",
       to_table |-> "dim_store", to_column |-> "store_id"],
      [from_table |-> "fact_returns", from_column |-> "sale_id",
       to_table |-> "fact_sales", to_column |-> "sale_id"] }

InitErd ==
    /\ util = "erd" /\ pc = "main"
    /\ \E present \in SUBSET ErdTables :
         /\ catalog = [t \in present |-> [cols |-> TableCols(t), rows |-> 0]]
         /\ dbExists \in {present # {}} \cup {TRUE}
         /\ pkeys \in SUBSET present
         /\ fkeys \in {F \in SUBSET FkCandidates :
                         /\ Cardinality(F) <= MaxFks
                         /\ \A f \in F : f.from_table \in present /\ f.to_table \in pkeys}
    /\ conOpen = 0 /\ stmts = <<>> /\ err = ""
    /\ existed0 = dbExists /\ cat0 = catalog /\ idx = 0
    /\ table_columns = <<>> /\ foreign_keys = <<>>
    /\ mermaid_diagram = <<>> /\ output_file = <<>>
    /\ LoaderIdle /\ BridgeIdle

\* ---- the catalog views the two queries read
PkName(t) == t \o "_" \o TableCols(t)[1][1] \o "_pkey"

FkName(f) == f.from_table \o "_" \o f.from_column \o "_fkey"

\* information_schema.table_constraints
TableConstraints ==
    {[constraint_name |-> PkName(t), table_schema |-> "main", table_name |-> t,
      constraint_type |-> "PRIMARY KEY"] : t \in pkeys}
    \cup
    {[constraint_name |-> FkName(f), table_schema |-> "main",
      table_name |-> f.from_table, constraint_type |-> "FOREIGN KEY"] : f \in fkeys}

\* information_schema.key_column_usage
KeyColumnUsage ==
    {[constraint_name |-> PkName(t), table_name |-> t,
      column_name |-> TableCols(t)[1][1]] : t \in pkeys}
    \cup
    {[constraint_name |-> FkName(f), table_name |-> f.from_table,
      column_name |-> f.from_column] : f \in fkeys}

\* information_schema.referential_constraints
ReferentialConstraints ==
    {[constraint_name |-> FkName(f), unique_constraint_name |-> PkName(f.to_table)] :
        f \in fkeys}

\* lines 24-35: information_schema.columns of schema main,
\* ORDER BY table_name, ordinal_position.
RECURSIVE ColumnsListing(_, _)
ColumnsListing(cat, names) ==
    IF names = <<>> THEN <<>>
    ELSE (IF Head(names) \in DOMAIN cat
          THEN [i \in 1..Len(cat[Head(names)].cols) |->
                  <<Head(names), cat[Head(names)].cols[i][1], cat[Head(names)].cols[i][2]>>]
          ELSE <<>>)
         \o ColumnsListing(cat, Tail(names))

\* lines 38-55: the five-way join; one result row per combination of rows
\* that satisfies every ON and the WHERE.  fk_table and pk_table are joined
\* on the table name alone.
ForeignKeysJoin ==
    {c \in [rc : ReferentialConstraints, fk_column : KeyColumnUsage,
            fk_table : TableConstraints, pk_column : KeyColumnUsage,
            pk_table : TableConstraints] :
        /\ c.rc.constraint_name = c.fk_column.constraint_name
        /\ c.fk_column.table_name = c.fk_table.table_name
        /\ c.fk_table.constraint_type = "FOREIGN KEY"
        /\ c.rc.unique_constraint_name = c.pk_column.constraint_name
        /\ c.pk_column.table_name = c.pk_table.table_name
        /\ c.pk_table.constraint_type = "PRIMARY KEY"
        /\ c.fk_table.table_schema = "main"
        /\ c.pk_table.table_schema = "main"}

\* The SELECT list of the join.
FkRow(c) ==
    <<c.fk_table.table_name, c.fk_column.column_name,
      c.pk_table.table_name, c.pk_column.column_name>>

\* The query has no ORDER BY: the engine returns the rows in any order.
Orderings(S) ==
    {o \in [1..Cardinality(S) -> S] : \A i, j \in 1..Cardinality(S) : i # j => o[i] # o[j]}

\* ---- rendering, lines 57-81
\* data_type.lower()
Lower(data_type) ==
    CASE data_type = "BIGINT" -> "bigint"
      [] data_type = "VARCHAR" -> "varchar"
      [] data_type = "DOUBLE" -> "double"
      [] data_type = "DATE" -> "date"
      [] data_type = "INTEGER" -> "integer"
      [] OTHER -> data_type

DictGet(d, k) == d[CHOOSE i \in 1..Len(d) : d[i][1] = k][2]

\* lines 62-66: tables[table] is created at the table's first row, and every
\* row appends "<lowercased type> <column>" to it.
RECURSIVE GroupColumns(_)
GroupColumns(listing) ==
    IF listing = <<>> THEN <<>>
    ELSE LET before == GroupColumns(SubSeq(listing, 1, Len(listing) - 1))
             row == listing[Len(listing)]
             made == IF DictHas(before, row[1]) THEN before
                     ELSE DictSet(before, row[1], <<>>)
         IN DictSet(made, row[1],
                    Append(DictGet(made, row[1]), Lower(row[3]) \o " " \o row[2]))

\* lines 68-71: header, one line per column, closing line, per table.
RECURSIVE TableBlocks(_)
TableBlocks(d) ==
    IF d = <<>> THEN <<>>
    ELSE <<"  " \o d[1][1] \o " {">>
         \o [i \in 1..Len(d[1][2]) |-> "    " \o d[1][2][i]]
         \o <<"  }">>
         \o TableBlocks(Tail(d))

\* The f-string of lines 77-78.
RelationshipLine(fk) ==
    "  " \o fk[1] \o " }o--o{ " \o fk[3] \o " : \"" \o fk[2] \o " -> " \o fk[4] \o "\""

\* Mutant of RelationshipLines: an edge is drawn only between tables that
\* have a block.
RelationshipLinesListedOnly(listing, fks) ==
    LET listed == {listing[i][1] : i \in 1..Len(listing)}
        IsListed(fk) == fk[1] \in listed /\ fk[3] \in listed
        kept == SelectSeq(fks, IsListed)
    IN [i \in 1..Len(kept) |-> RelationshipLine(kept[i])]

\* lines 75-78: one line per row of the relationship result.
RelationshipLines(listing, fks) == [i \in 1..Len(fks) |-> RelationshipLine(fks[i])]

\* lines 57-81: the lines that "\n".join puts together.
Render(listing, fks) ==
    <<"erDiagram">> \o TableBlocks(GroupColumns(listing)) \o RelationshipLines(listing, fks)

\* main, lines 85-90: without the database file main logs and returns;
\* otherwise generate_mermaid_erd connects (line 21).
ErdMain ==
    /\ util = "erd" /\ pc = "main"
    /\ IF ~dbExists
       THEN pc' = "done" /\ UNCHANGED conOpen
       ELSE pc' = "connected" /\ conOpen' = conOpen + 1
    /\ UNCHANGED <<util, dbExists, catalog, stmts, err, existed0, cat0, idx>>
    /\ UNCHANGED <<loaderVars, bridgeVars, erdVars>>

\* lines 24-35.
ErdQueryColumns ==
    /\ util = "erd" /\ pc = "connected"
    /\ table_columns' = ColumnsListing(catalog, NameOrder)
    /\ stmts' = Append(stmts, [op |-> "SELECT", table |-> "information_schema.columns",
                               from |-> ""])
    /\ pc' = "columns"
    /\ UNCHANGED <<util, dbExists, catalog, conOpen, err, existed0, cat0, idx>>
    /\ UNCHANGED <<pkeys, fkeys, foreign_keys, mermaid_diagram, output_file>>
    /\ UNCHANGED <<loaderVars, bridgeVars>>

\* lines 38-55.
ErdQueryForeignKeys ==
    /\ util = "erd" /\ pc = "columns"
    /\ \E o \in Orderings(ForeignKeysJoin) :
         foreign_keys' = [i \in 1..Len(o) |-> FkRow(o[i])]
    /\ stmts' = Append(stmts, [op |-> "SELECT",
                               table |-> "information_schema.referential_constraints",
                               from |-> ""])
    /\ pc' = "fks"
    /\ UNCHANGED <<util, dbExists, catalog, conOpen, err, existed0, cat0, idx>>
    /\ UNCHANGED <<pkeys, fkeys, table_columns, mermaid_diagram, output_file>>
    /\ UNCHANGED <<loaderVars, bridgeVars>>

\* lines 57-81: build the diagram and return it.
ErdRender ==
    /\ util \in {"erd", "render"} /\ pc = "fks"
    /\ mermaid_diagram' = Render(table_columns, foreign_keys)
    /\ pc' = "rendered"
    /\ UNCHANGED <<util, sharedVars>>
    /\ UNCHANGED <<pkeys, fkeys, table_columns, foreign_keys, output_file>>
    /\ UNCHANGED <<loaderVars, bridgeVars>>

\* main, lines 93-100: write the diagram to er-diagram.mermaid and print it.
ErdWrite ==
    /\ util \in {"erd", "render"} /\ pc = "rendered"
    /\ output_file' = mermaid_diagram
    /\ pc' = "done"
    /\ UNCHANGED <<util, sharedVars>>
    /\ UNCHANGED <<pkeys, fkeys, table_columns, foreign_keys, mermaid_diagram>>
    /\ UNCHANGED <<loaderVars, bridgeVars>>

NextErd ==
    \/ ErdMain
    \/ ErdQueryColumns
    \/ ErdQueryForeignKeys
    \/ ErdRender
    \/ ErdWrite

SpecErd == InitErd /\ [][NextErd]_vars

\* ---- the renderer on the results of the two queries alone
\* Rows a column listing is drawn from, and rows of a relationship result;
\* the renderer does not relate the two results to each other.
ListingRows == {"dim_product", "fact_sales"} \X {"id", "name"} \X {"BIGINT", "VARCHAR"}

FkRows ==
    { <<"fact_sales", "id", "dim_product", "id">>,
      <<"fact_sales", "name", "dim_store", "store_id">>,
      <<"fact_returns", "sale_id", "fact_sales", "id">> }

Rank(name) == CHOOSE i \in 1..Len(NameOrder) : NameOrder[i] = name

\* What ORDER BY table_name guarantees of a listing, with each column of a
\* table listed once.
IsListing(l) ==
    /\ \A i, j \in 1..Len(l) : i < j => Rank(l[i][1]) <= Rank(l[j][1])
    /\ \A i, j \in 1..Len(l) : i # j => <<l[i][1], l[i][2]>> # <<l[j][1], l[j][2]>>

InitRender ==
    /\ util = "render" /\ pc = "fks"
    /\ dbExists = TRUE /\ catalog = EmptyCatalog
    /\ conOpen = 1 /\ stmts = <<>> /\ err = ""
    /\ existed0 = TRUE /\ cat0 = catalog /\ idx = 0
    /\ pkeys = {} /\ fkeys = {}
    /\ table_columns \in {l \in SeqsUpTo(ListingRows, MaxListing) : IsListing(l)}
    /\ foreign_keys \in SeqsUpTo(FkRows, MaxFkRows)
    /\ mermaid_diagram = <<>> /\ output_file = <<>>
    /\ LoaderIdle /\ BridgeIdle

NextRender ==
    \/ ErdRender
    \/ ErdWrite

SpecRender == InitRender /\ [][NextRender]_vars

\* ---- the three utilities, each run on its own
InitAll == InitLoader \/ InitBridge \/ InitErd

NextAll == NextLoader \/ NextBridge \/ NextErd

SpecAll == InitAll /\ [][NextAll]_vars

\* --------------------------------------------------- Diagram Generator claims
\* The relationship line the claim gives for a declared foreign key.
ClaimedEdge(from_table, from_column, to_table, to_column) ==
    "  " \o from_table \o " }o--o{ " \o to_table
         \o " : \"" \o from_column \o " -> " \o to_column \o "\""

LinesEqual(line) == {i \in 1..Len(mermaid_diagram) : mermaid_diagram[i] = line}

\* C7 (as claimed): the rendered diagram holds exactly one relationship line
\* for every declared foreign key, also when its table declares several.
C7_OneLinePerForeignKey ==
    (util = "erd" /\ pc \in {"rendered", "done"})
    => \A f \in fkeys :
         Cardinality(LinesEqual(ClaimedEdge(f.from_table, f.from_column,
                                            f.to_table, f.to_column))) = 1

\* The block the claim gives for table T of a listing.
ClaimedBlock(listing, T) ==
    LET OfT(row) == row[1] = T
        rows == SelectSeq(listing, OfT)
    IN <<"  " \o T \o " {">>
       \o [i \in 1..Len(rows) |-> "    " \o Lower(rows[i][3]) \o " " \o rows[i][2]]
       \o <<"  }">>

RECURSIVE ClaimedBlocks(_, _)
ClaimedBlocks(listing, names) ==
    IF names = <<>> THEN <<>>
    ELSE ClaimedBlock(listing, Head(names)) \o ClaimedBlocks(listing, Tail(names))

ListedTables(listing) == FirstOccurrences([i \in 1..Len(listing) |-> listing[i][1]])

\* C8: the diagram is the line erDiagram, then one block per distinct table of
\* the listing in first-seen order (header, one "<lowercased type> <column>"
\* line per column in listing order, closing line), then one relationship
\* line per foreign-key tuple, whether or not its tables have a block.
C8_DiagramLayout ==
    (util = "render" /\ pc \in {"rendered", "done"})
    => mermaid_diagram =
         <<"erDiagram">>
         \o ClaimedBlocks(table_columns, ListedTables(table_columns))
         \o [i \in 1..Len(foreign_keys) |->
               ClaimedEdge(foreign_keys[i][1], foreign_keys[i][2],
                           foreign_keys[i][3], foreign_keys[i][4])]

\* C8's case: a diagram rendered from a listing of two tables, one with two
\* columns, and a foreign-key tuple whose target has no block.
C8_Witness ==
    /\ util = "render" /\ pc = "rendered"
    /\ Len(table_columns) = 3
    /\ table_columns[1][1] = table_columns[2][1]
    /\ table_columns[3][1] # table_columns[2][1]
    /\ \E i \in 1..Len(foreign_keys) :
         \A j \in 1..Len(table_columns) : table_columns[j][1] # foreign_keys[i][3]

\* ------------------------------------------------------- connection release
RunEnded ==
    \/ util = "loader" /\ caller = "main" /\ pc \in {"done", "raised"}
    \/ util = "bridge" /\ pc \in {"done", "raised"}
    \/ util = "erd" /\ pc = "done"

\* C6 (as claimed): when a utility's run has ended, normally or with an
\* error, no connection it opened is still open.
C6_ConnectionReleased == RunEnded => conOpen = 0

====
